---- MODULE Spec2Model ----
(***************************************************************************)
(* Model of the AI-vs-human voice detection engine:                        *)
(*   app/feature_extractor.py  AudioFeatureExtractor                       *)
(*   app/detector.py           VoiceDetector                               *)
(*                                                                         *)
(* Numbers.  Feature values are floats in the code; here a feature is an   *)
(* integer: Fixed(k) is the value k/Scale, Between(k) any value strictly   *)
(* between k/Scale and (k+1)/Scale.  Every threshold of the code is a      *)
(* Fixed value, so each comparison of a feature with a threshold has the   *)
(* outcome it has in the code.  Category scores, the weighted              *)
(* probability and the confidence are exact rationals [n, d].  A float     *)
(* computation can land on either side of a value it equals in exact       *)
(* arithmetic; the two places where that is observable (ai_probability     *)
(* against 0.50, and round(final_confidence, 2) at a half hundredth) take  *)
(* their direction from fp, a per-input unknown fixed at first use.        *)
(*                                                                         *)
(* Strings are TLA+ strings; substring search and lower-casing are         *)
(* computed character by character.                                        *)
(***************************************************************************)
EXTENDS Integers, Sequences, FiniteSets, TLC

VARIABLES
    y,              \* the decoded recording, as the numeric library reports it
    features,       \* VoiceDetector.features
    scores,         \* VoiceDetector.scores (a dict: insertion-ordered)
    indicators,     \* VoiceDetector.indicators
    ai_signals,     \* VoiceDetector.ai_signals
    human_signals,  \* VoiceDetector.human_signals
    WEIGHTS,        \* VoiceDetector.WEIGHTS (class-level, mutable dict)
    acc,            \* ai_score / human_score locals of the analyzers, last run
    locals,         \* locals of the last detect() call
    calls,          \* detect() calls made on the current instance
    log,            \* every DetectionResult returned for this recording
    budget,         \* detect() calls the environment makes with this recording
    fp,             \* direction floating point takes at an exact tie
    request,        \* the HTTP request detect_voice is serving, if any
    pc,             \* where the request is in detect_voice
    passed,         \* the checks the request has passed, in order
    response        \* the HTTP response, status 0 while there is none

vars == <<y, features, scores, indicators, ai_signals, human_signals,
          WEIGHTS, acc, locals, calls, log, budget, fp,
          request, pc, passed, response>>

\* the variables of the request handler
handler_vars == <<request, pc, passed, response>>

-----------------------------------------------------------------------------
(* Bounds of the model *)

\* detect() calls made with one recording of RepeatRecordings, over all instances
MaxCalls == 2

\* longest list of voiced frames explored for the pitch extractor
MaxVoiced == 12

\* largest tally handed to _calculate_confidence_boost on its own
MaxTally == 20

\* longest indicator list handed to _generate_explanation on its own
MaxIndicators == 3

-----------------------------------------------------------------------------
(* Numbers *)

\* every threshold of the code is a whole number of hundredths
Scale == 100

\* the feature value k / Scale
Fixed(k) == 2 * k

\* a feature value strictly between k / Scale and (k + 1) / Scale
Between(k) == 2 * k + 1

\* the feature value num / den, given in units of 1 / Scale (num >= 0, den > 0)
Quantise(num, den) ==
    IF num % den = 0 THEN Fixed(num \div den) ELSE Between(num \div den)

Min(a, b) == IF a < b THEN a ELSE b
Max(a, b) == IF a > b THEN a ELSE b

RECURSIVE GCD(_, _)
GCD(a, b) == IF b = 0 THEN a ELSE GCD(b, a % b)

Abs(a) == IF a < 0 THEN -a ELSE a

\* the rational n/d (d > 0), in lowest terms
Rat(n, d) ==
    LET g == GCD(Abs(n), d)
    IN  [n |-> n \div g, d |-> d \div g]

Centi(k) == Rat(k, Scale)

RatAdd(a, b) ==
    LET g == GCD(a.d, b.d)
    IN  Rat(a.n * (b.d \div g) + b.n * (a.d \div g), (a.d \div g) * b.d)

RatSub(a, b) == RatAdd(a, [n |-> -b.n, d |-> b.d])

RatMul(a, b) == Rat(a.n * b.n, a.d * b.d)

\* a / b for b > 0
RatDiv(a, b) == RatMul(a, [n |-> b.d, d |-> b.n])

\* a < b for a, b >= 0, by continued fractions (no product can overflow)
RECURSIVE RatLt(_, _)
RatLt(a, b) ==
    LET qa == a.n \div a.d
        qb == b.n \div b.d
        ra == a.n % a.d
        rb == b.n % b.d
    IN  IF qa # qb THEN qa < qb
        ELSE IF rb = 0 THEN FALSE
        ELSE IF ra = 0 THEN TRUE
        ELSE RatLt([n |-> b.d, d |-> rb], [n |-> a.d, d |-> ra])

RatLe(a, b) == ~RatLt(b, a)

RatMin(a, b) == IF RatLt(b, a) THEN b ELSE a
RatMax(a, b) == IF RatLt(a, b) THEN b ELSE a

\* floor of the square root, by bisection on [lo, hi)
RECURSIVE SqrtIn(_, _, _)
SqrtIn(x, lo, hi) ==
    IF hi - lo <= 1 THEN lo
    ELSE LET mid == (lo + hi) \div 2
         IN  IF mid * mid <= x THEN SqrtIn(x, mid, hi) ELSE SqrtIn(x, lo, mid)

ISqrt(x) == SqrtIn(x, 0, 46341)

\* the feature value sqrt(x) / den, given in units of 1 / Scale
QuantiseRoot(x, den) ==
    LET root == ISqrt(x)
    IN  IF root * root = x THEN Quantise(root, den) ELSE Between(root \div den)

RECURSIVE SeqSum(_)
SeqSum(s) == IF s = <<>> THEN 0 ELSE Head(s) + SeqSum(Tail(s))

RECURSIVE SeqSumSq(_)
SeqSumSq(s) == IF s = <<>> THEN 0 ELSE Head(s) * Head(s) + SeqSumSq(Tail(s))

SeqMax(s) == CHOOSE m \in {s[i] : i \in DOMAIN s} : \A i \in DOMAIN s : s[i] <= m
SeqMin(s) == CHOOSE m \in {s[i] : i \in DOMAIN s} : \A i \in DOMAIN s : m <= s[i]

-----------------------------------------------------------------------------
(* Strings *)

UpperAlpha == "ABCDEFGHIJKLMNOPQRSTUVWXYZ"
LowerAlpha == "abcdefghijklmnopqrstuvwxyz"

LowerChar(c) ==
    IF \E i \in 1..Len(UpperAlpha) : SubSeq(UpperAlpha, i, i) = c
    THEN LET i == CHOOSE j \in 1..Len(UpperAlpha) : SubSeq(UpperAlpha, j, j) = c
         IN  SubSeq(LowerAlpha, i, i)
    ELSE c

\* str.lower()
RECURSIVE Lower(_)
Lower(s) ==
    IF Len(s) = 0 THEN ""
    ELSE LowerChar(SubSeq(s, 1, 1)) \o Lower(SubSeq(s, 2, Len(s)))

\* word in s
Contains(s, word) ==
    \E i \in 1..(Len(s) - Len(word) + 1) : SubSeq(s, i, i + Len(word) - 1) = word

-----------------------------------------------------------------------------
(* Class-level tables of VoiceDetector *)

THRESHOLDS ==
    [ pitch_cv_ai_max              |-> Fixed(15),
      pitch_cv_human_min           |-> Fixed(8),
      pitch_std_ai_max             |-> Fixed(25 * Scale),
      mfcc_variance_ai_max         |-> Fixed(150 * Scale),
      mfcc_delta_std_ai_max        |-> Fixed(15 * Scale),
      spectral_flatness_ai_min     |-> Fixed(3),
      spectral_centroid_std_ai_max |-> Fixed(350 * Scale),
      silence_ratio_human_min      |-> Fixed(5),
      silence_ratio_human_max      |-> Fixed(30),
      jitter_ai_max                |-> Fixed(5),
      shimmer_ai_max               |-> Fixed(30),
      harmonic_ratio_ai_min        |-> Fixed(40 * Scale) ]

\* the keys of WEIGHTS, in the order the dict literal lists them
Categories == <<"pitch", "mfcc", "spectral", "temporal", "voice_quality">>

CategorySet == {Categories[i] : i \in DOMAIN Categories}

\* a weight table whose entries do not add up to 1.0
ClassWeightsOff ==
    [ pitch         |-> 35,
      mfcc          |-> 20,
      spectral      |-> 15,
      temporal      |-> 15,
      voice_quality |-> 20 ]

\* WEIGHTS as the class body sets it, in hundredths
ClassWeights ==
    [ pitch         |-> 30,
      mfcc          |-> 20,
      spectral      |-> 15,
      temporal      |-> 15,
      voice_quality |-> 20 ]

-----------------------------------------------------------------------------
(* Python dicts: self.scores keeps the order in which keys were first set *)

DictHas(d, k) == \E i \in DOMAIN d : d[i].key = k

DictGet(d, k) == d[CHOOSE i \in DOMAIN d : d[i].key = k].value

DictPut(d, k, v) ==
    IF DictHas(d, k)
    THEN [i \in DOMAIN d |-> IF d[i].key = k THEN [key |-> k, value |-> v] ELSE d[i]]
    ELSE Append(d, [key |-> k, value |-> v])

DictKeys(d) == {d[i].key : i \in DOMAIN d}

\* self.features.get(name, 0)
Get(f, name) == IF name \in DOMAIN f THEN f[name] ELSE 0

-----------------------------------------------------------------------------
(* AudioFeatureExtractor.  The recording y carries what librosa and numpy  *)
(* report for it: the pitch of every voiced frame (pitch_values, in Hz) and *)
(* the descriptors that are plain library results.                          *)

\* number of adjacent frames whose pitch differs by more than 50 Hz
RECURSIVE CountJumps(_)
CountJumps(s) ==
    IF Len(s) < 2 THEN 0
    ELSE (IF Abs(s[2] - s[1]) > 50 THEN 1 ELSE 0) + CountJumps(Tail(s))

\* the pitch features with the guard len(pitch_values) >= 10
ExtractPitchFeaturesFrom10(pitch_values) ==
    LET n      == Len(pitch_values)
        total  == SeqSum(pitch_values)
        spread == n * SeqSumSq(pitch_values) - total * total
        square == Scale * Scale * spread
    IN  IF n >= 10
        THEN [ pitch_mean  |-> Quantise(Scale * total, n),
               pitch_std   |-> QuantiseRoot(square, n),
               pitch_range |-> Fixed(Scale * (SeqMax(pitch_values) - SeqMin(pitch_values))),
               pitch_cv    |-> IF total > 0 THEN QuantiseRoot(square, total) ELSE 0,
               pitch_jumps |-> Quantise(Scale * CountJumps(pitch_values), n - 1) ]
        ELSE [ pitch_mean  |-> 0,
               pitch_std   |-> 0,
               pitch_range |-> 0,
               pitch_cv    |-> 0,
               pitch_jumps |-> 0 ]

ExtractPitchFeatures(pitch_values) ==
    LET n      == Len(pitch_values)
        total  == SeqSum(pitch_values)
        \* n^2 * variance
        spread == n * SeqSumSq(pitch_values) - total * total
        \* (Scale * n * std)^2
        square == Scale * Scale * spread
    IN  IF n > 10
        THEN [ pitch_mean  |-> Quantise(Scale * total, n),
               pitch_std   |-> QuantiseRoot(square, n),
               pitch_range |-> Fixed(Scale * (SeqMax(pitch_values) - SeqMin(pitch_values))),
               pitch_cv    |-> IF total > 0 THEN QuantiseRoot(square, total) ELSE 0,
               pitch_jumps |-> Quantise(Scale * CountJumps(pitch_values), n - 1) ]
        ELSE [ pitch_mean  |-> 0,
               pitch_std   |-> 0,
               pitch_range |-> 0,
               pitch_cv    |-> 0,
               pitch_jumps |-> 0 ]

\* rms_cv of _extract_temporal_features
RmsCv(w) ==
    IF w.rms_mean > 0
    THEN Quantise(Scale * w.rms_std, w.rms_mean)
    ELSE 0

\* harmonic_ratio of _extract_voice_quality_features, capped at 100
HarmonicRatio(w) == Min(w.hp_energy_ratio, Fixed(100 * Scale))

\* jitter of _extract_voice_quality_features, capped at 1.0
Jitter(w) == Min(w.energy_jitter, Fixed(Scale))

\* extract_all_features(): the features a later step of detect() or of the
\* extractor reads; shimmer is the rms_cv already stored
ExtractAllFeatures(w) ==
    LET pitch  == ExtractPitchFeatures(w.pitch_values)
        rms_cv == RmsCv(w)
    IN  [ mfcc_variance          |-> w.mfcc_variance,
          mfcc_std_mean          |-> w.mfcc_std_mean,
          mfcc_delta_std         |-> w.mfcc_delta_std,
          pitch_mean             |-> pitch.pitch_mean,
          pitch_std              |-> pitch.pitch_std,
          pitch_range            |-> pitch.pitch_range,
          pitch_cv               |-> pitch.pitch_cv,
          pitch_jumps            |-> pitch.pitch_jumps,
          spectral_centroid_std  |-> w.spectral_centroid_std,
          spectral_flatness_mean |-> w.spectral_flatness_mean,
          spectral_contrast_mean |-> w.spectral_contrast_mean,
          zcr_std                |-> w.zcr_std,
          rms_cv                 |-> rms_cv,
          silence_ratio          |-> w.silence_ratio,
          harmonic_ratio         |-> HarmonicRatio(w),
          jitter                 |-> Jitter(w),
          shimmer                |-> rms_cv ]

-----------------------------------------------------------------------------
(* The five analyzers.  Each threshold test yields the increments it adds  *)
(* to the local accumulators (hundredths), to the shared tallies, and the  *)
(* indicator it appends (none: the empty list).                            *)

AiTest(inc, sig, ind) ==
    [ai_score |-> inc, human_score |-> 0, ai_signals |-> sig, human_signals |-> 0, ind |-> ind]

HumanTest(inc, sig, ind) ==
    [ai_score |-> 0, human_score |-> inc, ai_signals |-> 0, human_signals |-> sig, ind |-> ind]

\* the tail of every _analyze_*: the three tests applied to the instance
Score(st, category, t1, t2, t3) ==
    LET ai_score    == t1.ai_score + t2.ai_score + t3.ai_score
        human_score == t1.human_score + t2.human_score + t3.human_score
        total       == ai_score + human_score
    IN  [ scores        |-> DictPut(st.scores, category,
                                    IF total > 0 THEN Rat(ai_score, total) ELSE Rat(1, 2)),
          indicators    |-> st.indicators \o t1.ind \o t2.ind \o t3.ind,
          ai_signals    |-> st.ai_signals + t1.ai_signals + t2.ai_signals + t3.ai_signals,
          human_signals |-> st.human_signals + t1.human_signals + t2.human_signals
                                             + t3.human_signals,
          acc           |-> [k \in DOMAIN st.acc \cup {category} |->
                                IF k = category
                                THEN [ai_score |-> ai_score, human_score |-> human_score]
                                ELSE st.acc[k]] ]

\* the pitch_cv test with the two human-leaning increments exchanged
PitchCvTestExchanged(pitch_cv) ==
    IF pitch_cv < THRESHOLDS.pitch_cv_human_min
    THEN AiTest(40, 1, <<"Unnaturally consistent pitch detected">>)
    ELSE IF pitch_cv > THRESHOLDS.pitch_cv_ai_max
    THEN HumanTest(20, 1, <<"Natural pitch variation present">>)
    ELSE HumanTest(40, 0, <<>>)

PitchCvTest(pitch_cv) ==
    IF pitch_cv < THRESHOLDS.pitch_cv_human_min
    THEN AiTest(40, 1, <<"Unnaturally consistent pitch detected">>)
    ELSE IF pitch_cv > THRESHOLDS.pitch_cv_ai_max
    THEN HumanTest(40, 1, <<"Natural pitch variation present">>)
    ELSE HumanTest(20, 0, <<>>)

AnalyzePitch(f, st) ==
    LET pitch_cv    == Get(f, "pitch_cv")
        pitch_std   == Get(f, "pitch_std")
        pitch_range == Get(f, "pitch_range")
    IN  Score(st, "pitch",
              PitchCvTest(pitch_cv),
              IF pitch_std < THRESHOLDS.pitch_std_ai_max /\ pitch_std > 0
              THEN AiTest(30, 1, <<>>)
              ELSE HumanTest(30, 1, <<>>),
              IF pitch_range > Fixed(50 * Scale)
              THEN HumanTest(30, 1, <<"Wide pitch range typical of human speech">>)
              ELSE AiTest(20, 0, <<>>))

\* _analyze_mfcc with mfcc_var <= mfcc_variance_ai_max as its first test
AnalyzeMfccInclusive(f, st) ==
    LET mfcc_var       == Get(f, "mfcc_variance")
        mfcc_delta_std == Get(f, "mfcc_delta_std")
        mfcc_std_mean  == Get(f, "mfcc_std_mean")
    IN  Score(st, "mfcc",
              IF mfcc_var <= THRESHOLDS.mfcc_variance_ai_max
              THEN AiTest(40, 1, <<"Low spectral complexity detected">>)
              ELSE HumanTest(40, 1, <<"Rich spectral complexity present">>),
              IF mfcc_delta_std < THRESHOLDS.mfcc_delta_std_ai_max
              THEN AiTest(30, 1, <<"Limited dynamic speech patterns">>)
              ELSE HumanTest(30, 1, <<>>),
              IF mfcc_std_mean > Fixed(10 * Scale)
              THEN HumanTest(30, 1, <<>>)
              ELSE AiTest(20, 0, <<>>))

AnalyzeMfcc(f, st) ==
    LET mfcc_var       == Get(f, "mfcc_variance")
        mfcc_delta_std == Get(f, "mfcc_delta_std")
        mfcc_std_mean  == Get(f, "mfcc_std_mean")
    IN  Score(st, "mfcc",
              IF mfcc_var < THRESHOLDS.mfcc_variance_ai_max
              THEN AiTest(40, 1, <<"Low spectral complexity detected">>)
              ELSE HumanTest(40, 1, <<"Rich spectral complexity present">>),
              IF mfcc_delta_std < THRESHOLDS.mfcc_delta_std_ai_max
              THEN AiTest(30, 1, <<"Limited dynamic speech patterns">>)
              ELSE HumanTest(30, 1, <<>>),
              IF mfcc_std_mean > Fixed(10 * Scale)
              THEN HumanTest(30, 1, <<>>)
              ELSE AiTest(20, 0, <<>>))

AnalyzeSpectral(f, st) ==
    LET flatness     == Get(f, "spectral_flatness_mean")
        centroid_std == Get(f, "spectral_centroid_std")
        contrast     == Get(f, "spectral_contrast_mean")
    IN  Score(st, "spectral",
              IF flatness < THRESHOLDS.spectral_flatness_ai_min
              THEN HumanTest(35, 1, <<"Natural tonal quality detected">>)
              ELSE AiTest(25, 0, <<>>),
              IF centroid_std > THRESHOLDS.spectral_centroid_std_ai_max
              THEN HumanTest(35, 1, <<"Natural frequency variations present">>)
              ELSE AiTest(30, 1, <<>>),
              IF contrast > Fixed(20 * Scale)
              THEN HumanTest(30, 1, <<>>)
              ELSE AiTest(20, 0, <<>>))

\* the silence test with the lower end of the human band left out
SilenceTestNoLowerEnd(silence_ratio) ==
    IF silence_ratio <= THRESHOLDS.silence_ratio_human_max
    THEN HumanTest(50, 1, <<"Natural breathing pauses detected">>)
    ELSE AiTest(30, 0, <<"Unusual pause patterns detected">>)

SilenceTest(silence_ratio) ==
    IF /\ THRESHOLDS.silence_ratio_human_min <= silence_ratio
       /\ silence_ratio <= THRESHOLDS.silence_ratio_human_max
    THEN HumanTest(50, 1, <<"Natural breathing pauses detected">>)
    ELSE IF silence_ratio < THRESHOLDS.silence_ratio_human_min
    THEN AiTest(40, 1, <<"Lack of natural breathing pauses">>)
    ELSE AiTest(30, 0, <<"Unusual pause patterns detected">>)

AnalyzeTemporal(f, st) ==
    LET silence_ratio == Get(f, "silence_ratio")
        rms_cv        == Get(f, "rms_cv")
        zcr_std       == Get(f, "zcr_std")
    IN  Score(st, "temporal",
              SilenceTest(silence_ratio),
              IF rms_cv > Fixed(40)
              THEN HumanTest(30, 1, <<"Natural energy variations in speech">>)
              ELSE AiTest(25, 0, <<>>),
              IF zcr_std > Fixed(2)
              THEN HumanTest(20, 0, <<>>)
              ELSE AiTest(15, 0, <<>>))

\* _analyze_voice_quality with the two branches of the shimmer test exchanged
AnalyzeVoiceQualityShimmerExchanged(f, st) ==
    LET jitter         == Get(f, "jitter")
        shimmer        == Get(f, "shimmer")
        harmonic_ratio == Get(f, "harmonic_ratio")
    IN  Score(st, "voice_quality",
              IF jitter > THRESHOLDS.jitter_ai_max
              THEN HumanTest(40, 1, <<"Natural voice micro-variations detected">>)
              ELSE AiTest(40, 1, <<"Missing natural voice micro-variations">>),
              IF shimmer > THRESHOLDS.shimmer_ai_max
              THEN AiTest(30, 1, <<>>)
              ELSE HumanTest(30, 1, <<"Natural amplitude variations present">>),
              IF harmonic_ratio > THRESHOLDS.harmonic_ratio_ai_min
              THEN AiTest(25, 0, <<"Unusually clean audio signal">>)
              ELSE HumanTest(25, 1, <<>>))

AnalyzeVoiceQuality(f, st) ==
    LET jitter         == Get(f, "jitter")
        shimmer        == Get(f, "shimmer")
        harmonic_ratio == Get(f, "harmonic_ratio")
    IN  Score(st, "voice_quality",
              IF jitter > THRESHOLDS.jitter_ai_max
              THEN HumanTest(40, 1, <<"Natural voice micro-variations detected">>)
              ELSE AiTest(40, 1, <<"Missing natural voice micro-variations">>),
              IF shimmer > THRESHOLDS.shimmer_ai_max
              THEN HumanTest(30, 1, <<"Natural amplitude variations present">>)
              ELSE AiTest(30, 1, <<>>),
              IF harmonic_ratio > THRESHOLDS.harmonic_ratio_ai_min
              THEN AiTest(25, 0, <<"Unusually clean audio signal">>)
              ELSE HumanTest(25, 1, <<>>))

Analyze(category, f, st) ==
    CASE category = "pitch"         -> AnalyzePitch(f, st)
      [] category = "mfcc"          -> AnalyzeMfcc(f, st)
      [] category = "spectral"      -> AnalyzeSpectral(f, st)
      [] category = "temporal"      -> AnalyzeTemporal(f, st)
      [] category = "voice_quality" -> AnalyzeVoiceQuality(f, st)

\* the analyzers called one after the other, in the given order
RECURSIVE RunAnalyzers(_, _, _)
RunAnalyzers(order, f, st) ==
    IF order = <<>> THEN st
    ELSE RunAnalyzers(Tail(order), f, Analyze(Head(order), f, st))

-----------------------------------------------------------------------------
(* Aggregation *)

Half == Rat(1, 2)

\* the loop of _calculate_final_score over the categories still to visit
RECURSIVE WeightedTotals(_, _, _)
WeightedTotals(cats, sc, W) ==
    IF cats = <<>> THEN [total_score |-> Rat(0, 1), total_weight |-> Rat(0, 1)]
    ELSE LET category == cats[Len(cats)]
             before   == WeightedTotals(SubSeq(cats, 1, Len(cats) - 1), sc, W)
             weight   == Centi(W[category])
         IN  IF DictHas(sc, category)
             THEN [ total_score  |-> RatAdd(before.total_score,
                                            RatMul(DictGet(sc, category), weight)),
                    total_weight |-> RatAdd(before.total_weight, weight) ]
             ELSE before

\* the weighted mean with the i-th weight applied to the i-th score stored
CalculateFinalScoreByPosition(sc, W) ==
    LET byPosition == [i \in DOMAIN sc |-> [key |-> Categories[i], value |-> sc[i].value]]
        t          == WeightedTotals(Categories, byPosition, W)
    IN  IF t.total_weight.n > 0
        THEN RatDiv(t.total_score, t.total_weight)
        ELSE Half

CalculateFinalScore(sc, W) ==
    LET t == WeightedTotals(Categories, sc, W)
    IN  IF t.total_weight.n > 0
        THEN RatDiv(t.total_score, t.total_weight)
        ELSE Half

\* _calculate_confidence_boost with the first threshold inclusive
CalculateConfidenceBoostInclusive(ai, human) ==
    LET total_signals   == ai + human
        agreement_ratio == IF ai > human
                           THEN Rat(ai, total_signals)
                           ELSE Rat(human, total_signals)
    IN  IF total_signals = 0 THEN Rat(0, 1)
        ELSE IF RatLe(Centi(75), agreement_ratio) THEN Centi(25)
        ELSE IF RatLt(Centi(65), agreement_ratio) THEN Centi(15)
        ELSE IF RatLt(Centi(55), agreement_ratio) THEN Centi(8)
        ELSE Rat(0, 1)

CalculateConfidenceBoost(ai, human) ==
    LET total_signals   == ai + human
        agreement_ratio == IF ai > human
                           THEN Rat(ai, total_signals)
                           ELSE Rat(human, total_signals)
    IN  IF total_signals = 0 THEN Rat(0, 1)
        ELSE IF RatLt(Centi(75), agreement_ratio) THEN Centi(25)
        ELSE IF RatLt(Centi(65), agreement_ratio) THEN Centi(15)
        ELSE IF RatLt(Centi(55), agreement_ratio) THEN Centi(8)
        ELSE Rat(0, 1)

-----------------------------------------------------------------------------
(* Floating point at an exact tie.  A direction is a subset of {-1, 0, 1}: *)
(* empty while the tie has not been met, then {d}: the float lies below    *)
(* (-1), on (0) or above (1) the exact value.                              *)

FloatDirs == {-1, 0, 1}

Undecided == [prob |-> {}, conf |-> {}]

\* the directions a computation may take: the one taken before, if any
TieDirs(known, tie) ==
    IF ~tie THEN {known}
    ELSE IF known = {} THEN {{d} : d \in FloatDirs}
    ELSE {known}

DirOf(known) == CHOOSE d \in known : TRUE

\* ai_probability >= 0.50 on floats
ProbAtLeastHalf(p, known) ==
    \/ RatLt(Half, p)
    \/ p = Half /\ DirOf(known) >= 0

\* x = (Hundredths(x) + HundredthsRem(x) / x.d) / 100, one decimal digit at a time
Hundredths(x) ==
    LET tenths == (10 * x.n) \div x.d
        r1     == (10 * x.n) % x.d
    IN  10 * tenths + (10 * r1) \div x.d

HundredthsRem(x) == (10 * ((10 * x.n) % x.d)) % x.d

\* x is an odd number of half hundredths
Halfway(x) == 2 * HundredthsRem(x) = x.d

\* round(x, 2), in hundredths
Round2(x, known) ==
    LET q == Hundredths(x)
        r == HundredthsRem(x)
    IN  IF 2 * r < x.d THEN q
        ELSE IF 2 * r > x.d THEN q + 1
        ELSE IF DirOf(known) < 0 THEN q
        ELSE IF DirOf(known) > 0 THEN q + 1
        ELSE IF q % 2 = 0 THEN q ELSE q + 1

-----------------------------------------------------------------------------
(* Explanation *)

AiKeywords ==
    {"unnatural", "lack", "missing", "unusual", "limited", "low", "synthetic", "clean"}

HumanKeywords == {"natural", "present", "human", "rich", "wide", "breathing"}

\* any(word in ind.lower() for word in words)
MatchesAny(ind, words) == \E word \in words : Contains(Lower(ind), word)

\* every string an analyzer can append
IndicatorTexts ==
    { "Unnaturally consistent pitch detected",
      "Natural pitch variation present",
      "Wide pitch range typical of human speech",
      "Low spectral complexity detected",
      "Rich spectral complexity present",
      "Limited dynamic speech patterns",
      "Natural tonal quality detected",
      "Natural frequency variations present",
      "Natural breathing pauses detected",
      "Lack of natural breathing pauses",
      "Unusual pause patterns detected",
      "Natural energy variations in speech",
      "Natural voice micro-variations detected",
      "Missing natural voice micro-variations",
      "Natural amplitude variations present",
      "Unusually clean audio signal" }

\* the keyword filters, tabulated once over IndicatorTexts
AiMatching == {ind \in IndicatorTexts : MatchesAny(ind, AiKeywords)}
HumanMatching == {ind \in IndicatorTexts : MatchesAny(ind, HumanKeywords)}
Lowered == {<<ind, Lower(ind)>> : ind \in IndicatorTexts}

IsAiIndicator(ind) ==
    IF ind \in IndicatorTexts THEN ind \in AiMatching ELSE MatchesAny(ind, AiKeywords)

IsHumanIndicator(ind) ==
    IF ind \in IndicatorTexts THEN ind \in HumanMatching ELSE MatchesAny(ind, HumanKeywords)

LowerOf(ind) ==
    IF ind \in IndicatorTexts
    THEN (CHOOSE pair \in Lowered : pair[1] = ind)[2]
    ELSE Lower(ind)

\* max(self.scores, key=self.scores.get): the first key holding the largest value
MaxCategory(sc) ==
    sc[CHOOSE i \in DOMAIN sc :
          /\ \A j \in DOMAIN sc : RatLe(sc[j].value, sc[i].value)
          /\ \A j \in 1..(i - 1) : RatLt(sc[j].value, sc[i].value)].key

\* min(self.scores, key=self.scores.get): the first key holding the smallest value
MinCategory(sc) ==
    sc[CHOOSE i \in DOMAIN sc :
          /\ \A j \in DOMAIN sc : RatLe(sc[i].value, sc[j].value)
          /\ \A j \in 1..(i - 1) : RatLt(sc[i].value, sc[j].value)].key

AiExplanations(category) ==
    CASE category = "pitch" ->
            "Unnatural pitch consistency and robotic speech patterns detected"
      [] category = "mfcc" ->
            "Synthetic spectral patterns identified in voice analysis"
      [] category = "spectral" ->
            "Artificial frequency distribution detected"
      [] category = "temporal" ->
            "Mechanical timing patterns without natural rhythm"
      [] category = "voice_quality" ->
            "Missing natural voice micro-variations and tremors"
      [] OTHER -> "Synthetic speech patterns detected"

HumanExplanations(category) ==
    CASE category = "pitch" ->
            "Natural pitch variation consistent with human speech"
      [] category = "mfcc" ->
            "Complex spectral patterns typical of human voice"
      [] category = "spectral" ->
            "Natural frequency characteristics detected"
      [] category = "temporal" ->
            "Organic speech rhythm with natural pauses"
      [] category = "voice_quality" ->
            "Natural voice micro-variations and breathing detected"
      [] OTHER -> "Natural human speech characteristics identified"

\* the f-string without .lower()
JoinFirstTwoAsAppended(matching) == matching[1] \o " and " \o matching[2]

\* the two f-string branches shared by both labels
JoinFirstTwo(matching) == matching[1] \o " and " \o LowerOf(matching[2])

GenerateExplanation(classification, inds, sc) ==
    IF classification = "AI_GENERATED"
    THEN LET ai_indicators == SelectSeq(inds, IsAiIndicator)
         IN  IF Len(ai_indicators) >= 2 THEN JoinFirstTwo(ai_indicators)
             ELSE IF Len(ai_indicators) > 0 THEN ai_indicators[1]
             ELSE AiExplanations(MaxCategory(sc))
    ELSE LET human_indicators == SelectSeq(inds, IsHumanIndicator)
         IN  IF Len(human_indicators) >= 2 THEN JoinFirstTwo(human_indicators)
             ELSE IF Len(human_indicators) > 0 THEN human_indicators[1]
             ELSE HumanExplanations(MinCategory(sc))

-----------------------------------------------------------------------------
(* detect() *)

\* the order in which detect() calls the analyzers
AnalysisOrder == <<"pitch", "mfcc", "spectral", "temporal", "voice_quality">>

\* the label with ai_probability > 0.50 as the test
ClassifyAbove(ai_probability, known) ==
    IF RatLt(Half, ai_probability) THEN "AI_GENERATED" ELSE "HUMAN"

Classify(ai_probability, known) ==
    IF ProbAtLeastHalf(ai_probability, known) THEN "AI_GENERATED" ELSE "HUMAN"

RawConfidence(classification, ai_probability) ==
    IF classification = "AI_GENERATED"
    THEN ai_probability
    ELSE RatSub(Rat(1, 1), ai_probability)

\* the boost applied and the upper clamp alone
FinalConfidenceNoFloor(raw_confidence, confidence_boost) ==
    RatMin(Centi(99), RatAdd(raw_confidence, confidence_boost))

\* the boost applied, then the two clamps
FinalConfidence(raw_confidence, confidence_boost) ==
    RatMax(Centi(55), RatMin(Centi(99), RatAdd(raw_confidence, confidence_boost)))

\* self.* of the current instance, as the analyzers see it
Instance ==
    [ scores        |-> scores,
      indicators    |-> indicators,
      ai_signals    |-> ai_signals,
      human_signals |-> human_signals,
      acc           |-> acc ]

\* self.* as __init__ leaves it
FreshInstance ==
    [ scores        |-> <<>>,
      indicators    |-> <<>>,
      ai_signals    |-> 0,
      human_signals |-> 0,
      acc           |-> <<>> ]

\* detect() down to the boost: extraction, the analyzers in the given order,
\* the weighted probability and the boost
Analysis(order, w, inst, W) ==
    LET f  == ExtractAllFeatures(w)
        st == RunAnalyzers(order, f, inst)
    IN  [ features         |-> f,
          st               |-> st,
          ai_probability   |-> CalculateFinalScore(st.scores, W),
          confidence_boost |-> CalculateConfidenceBoost(st.ai_signals, st.human_signals) ]

\* detect() from the classification on
Decision(run, prob_dir) ==
    LET classification == Classify(run.ai_probability, prob_dir)
        raw_confidence == RawConfidence(classification, run.ai_probability)
    IN  [ classification   |-> classification,
          raw_confidence   |-> raw_confidence,
          final_confidence |-> FinalConfidence(raw_confidence, run.confidence_boost),
          explanation      |-> GenerateExplanation(classification,
                                                   run.st.indicators, run.st.scores) ]

\* the dict detect() returns
DetectionResult(dec, conf_dir) ==
    [ classification  |-> dec.classification,
      confidenceScore |-> Round2(dec.final_confidence, conf_dir),
      explanation     |-> dec.explanation ]

\* one detect() call, with the analyzers called in the given order
DetectCall(order) ==
    /\ Len(log) < budget
    /\ \E run \in {Analysis(order, y, Instance, WEIGHTS)} :
       \E prob_dir \in TieDirs(fp.prob, run.ai_probability = Half) :
       \E dec \in {Decision(run, prob_dir)} :
       \E conf_dir \in TieDirs(fp.conf, Halfway(dec.final_confidence)) :
          /\ features' = run.features
          /\ scores' = run.st.scores
          /\ indicators' = run.st.indicators
          /\ ai_signals' = run.st.ai_signals
          /\ human_signals' = run.st.human_signals
          /\ acc' = run.st.acc
          /\ locals' = [ ai_probability   |-> run.ai_probability,
                         confidence_boost |-> run.confidence_boost,
                         raw_confidence   |-> dec.raw_confidence,
                         final_confidence |-> dec.final_confidence ]
          /\ calls' = calls + 1
          /\ fp' = [prob |-> prob_dir, conf |-> conf_dir]
          /\ log' = Append(log, [ call   |-> calls + 1,
                                  order  |-> order,
                                  result |-> DetectionResult(dec, conf_dir) ])
    /\ UNCHANGED <<y, WEIGHTS, budget>>

\* detect() called on the detector directly, outside a request
DetectIn(order) ==
    /\ DetectCall(order)
    /\ UNCHANGED handler_vars

Detect == DetectIn(AnalysisOrder)

\* VoiceDetector(y, sr, language): a fresh instance for the same recording
Construct ==
    /\ calls > 0
    /\ Len(log) < budget
    /\ features' = <<>>
    /\ scores' = <<>>
    /\ indicators' = <<>>
    /\ ai_signals' = 0
    /\ human_signals' = 0
    /\ acc' = <<>>
    /\ locals' = <<>>
    /\ calls' = 0
    /\ UNCHANGED <<y, WEIGHTS, log, budget, fp>>
    /\ UNCHANGED handler_vars

-----------------------------------------------------------------------------
(* Recordings explored *)

\* k frames at pitch a followed by m frames at pitch b
Frames(a, k, b, m) == [i \in 1..(k + m) |-> IF i <= k THEN a ELSE b]

\* voiced-frame lists, one for every combination of outcomes of the three
\* pitch tests
PitchCases ==
    { Frames(60, 5, 61, 6),     \* cv < 0.08,  0 < std < 25, range <= 50
      Frames(137, 1, 188, 10),  \* cv < 0.08,  0 < std < 25, range > 50
      Frames(60, 5, 111, 5),    \* 10 voiced frames: zero-filled
      Frames(280, 4, 332, 7),   \* cv < 0.08,  std >= 25,    range > 50
      Frames(92, 6, 108, 6),    \* cv = 0.08,  0 < std < 25, range <= 50
      Frames(60, 1, 111, 10),   \* cv between, 0 < std < 25, range > 50
      Frames(142, 6, 192, 6),   \* cv between, std = 25,     range = 50
      Frames(134, 4, 186, 7),   \* cv between, std >= 25,    range > 50
      Frames(60, 5, 90, 6),     \* cv > 0.15,  0 < std < 25, range <= 50
      Frames(60, 4, 111, 7),    \* cv > 0.15,  0 < std < 25, range > 50
      Frames(60, 6, 110, 6),    \* cv > 0.15,  std = 25,     range = 50
      Frames(60, 5, 111, 6) }   \* cv > 0.15,  std >= 25,    range > 50

\* (rms_mean, rms_std): rms_cv = 0.30, 0.40, 0.41
RmsCases == {<<100, 30>>, <<100, 40>>, <<100, 41>>}

Recording(pitch_values, rms, d) ==
    [ pitch_values           |-> pitch_values,
      rms_mean               |-> rms[1],
      rms_std                |-> rms[2],
      mfcc_variance          |-> d.mfcc_variance,
      mfcc_delta_std         |-> d.mfcc_delta_std,
      mfcc_std_mean          |-> d.mfcc_std_mean,
      spectral_flatness_mean |-> d.spectral_flatness_mean,
      spectral_centroid_std  |-> d.spectral_centroid_std,
      spectral_contrast_mean |-> d.spectral_contrast_mean,
      silence_ratio          |-> d.silence_ratio,
      zcr_std                |-> d.zcr_std,
      energy_jitter          |-> d.energy_jitter,
      hp_energy_ratio        |-> d.hp_energy_ratio ]

\* a value just below the threshold k / Scale
Below(k) == Between(k - 1)

\* every library descriptor on its threshold and just off it
Descriptors ==
    [ mfcc_variance          : {Below(150 * Scale), Fixed(150 * Scale)},
      mfcc_delta_std         : {Below(15 * Scale), Fixed(15 * Scale)},
      mfcc_std_mean          : {Fixed(10 * Scale), Between(10 * Scale)},
      spectral_flatness_mean : {Below(3), Fixed(3)},
      spectral_centroid_std  : {Fixed(350 * Scale), Between(350 * Scale)},
      spectral_contrast_mean : {Fixed(20 * Scale), Between(20 * Scale)},
      silence_ratio          : {Below(5), Fixed(5), Between(30)},
      zcr_std                : {Fixed(2), Between(2)},
      energy_jitter          : {Fixed(5), Between(5)},
      hp_energy_ratio        : {Fixed(40 * Scale), Between(40 * Scale)} ]

\* every combination of outcomes of the 15 threshold tests
Recordings ==
    {Recording(pv, rms, d) : pv \in PitchCases, rms \in RmsCases, d \in Descriptors}

\* the descriptors with the three tests that never append an indicator held
\* at their thresholds, and both ends of the silence band
RepeatDescriptors ==
    [ mfcc_variance          : {Below(150 * Scale), Fixed(150 * Scale)},
      mfcc_delta_std         : {Below(15 * Scale), Fixed(15 * Scale)},
      mfcc_std_mean          : {Fixed(10 * Scale)},
      spectral_flatness_mean : {Below(3), Fixed(3)},
      spectral_centroid_std  : {Fixed(350 * Scale), Between(350 * Scale)},
      spectral_contrast_mean : {Fixed(20 * Scale)},
      silence_ratio          : {Below(5), Fixed(5), Fixed(30), Between(30)},
      zcr_std                : {Fixed(2)},
      energy_jitter          : {Fixed(5), Between(5)},
      hp_energy_ratio        : {Fixed(40 * Scale), Between(40 * Scale)} ]

RepeatPitchCases ==
    { Frames(60, 5, 61, 6), Frames(60, 5, 111, 5),
      Frames(92, 6, 108, 6), Frames(60, 5, 111, 6) }

\* the recordings submitted more than once
RepeatRecordings ==
    { Recording(pv, rms, d) :
        pv \in RepeatPitchCases, rms \in RmsCases, d \in RepeatDescriptors }

\* the pitches of the voiced-frame lists swept by length
SweepHz == {100, 160}

SweepDescriptors ==
    [ mfcc_variance          |-> Fixed(150 * Scale),
      mfcc_delta_std         |-> Fixed(15 * Scale),
      mfcc_std_mean          |-> Fixed(10 * Scale),
      spectral_flatness_mean |-> Fixed(3),
      spectral_centroid_std  |-> Fixed(350 * Scale),
      spectral_contrast_mean |-> Fixed(20 * Scale),
      silence_ratio          |-> Fixed(5),
      zcr_std                |-> Fixed(2),
      energy_jitter          |-> Fixed(5),
      hp_energy_ratio        |-> Fixed(40 * Scale) ]

\* every two-pitch list of 0 .. MaxVoiced voiced frames
SweepRecordings ==
    UNION { { Recording(Frames(a, k, b, n - k), <<100, 30>>, SweepDescriptors) :
                a \in SweepHz, b \in SweepHz, k \in 0..n } :
            n \in 0..MaxVoiced }

\* the detector used directly: no request is being served
NoRequest ==
    /\ request = <<>>
    /\ pc = "core"
    /\ passed = <<>>
    /\ response = [status |-> 0]

InitInstance ==
    /\ features = <<>>
    /\ scores = <<>>
    /\ indicators = <<>>
    /\ ai_signals = 0
    /\ human_signals = 0
    /\ WEIGHTS = ClassWeights
    /\ acc = <<>>
    /\ locals = <<>>
    /\ calls = 0
    /\ log = <<>>
    /\ fp = Undecided

Init ==
    /\ \/ y \in Recordings /\ budget = 1
       \/ y \in SweepRecordings /\ budget = 1
       \/ y \in RepeatRecordings /\ budget = MaxCalls
    /\ InitInstance
    /\ NoRequest

Next ==
    \/ Detect
    \/ Construct

Spec == Init /\ [][Next]_vars

-----------------------------------------------------------------------------
(* The analyzers called in another order.  detect() fixes AnalysisOrder;   *)
(* here one call is made on a fresh instance with the five analyzers in    *)
(* any of their 120 orders.                                                *)

Orders ==
    { order \in [1..Len(Categories) -> CategorySet] :
        \A i, j \in 1..Len(Categories) : order[i] = order[j] => i = j }

\* the recordings analysed in every order
PermDescriptors ==
    [ mfcc_variance          : {Below(150 * Scale), Fixed(150 * Scale)},
      mfcc_delta_std         : {Fixed(15 * Scale)},
      mfcc_std_mean          : {Fixed(10 * Scale)},
      spectral_flatness_mean : {Below(3), Fixed(3)},
      spectral_centroid_std  : {Fixed(350 * Scale)},
      spectral_contrast_mean : {Fixed(20 * Scale)},
      silence_ratio          : {Below(5), Fixed(5), Between(30)},
      zcr_std                : {Fixed(2)},
      energy_jitter          : {Fixed(5), Between(5)},
      hp_energy_ratio        : {Fixed(40 * Scale)} ]

PermRecordings ==
    { Recording(pv, rms, d) :
        pv \in {Frames(60, 5, 111, 5), Frames(60, 5, 111, 6)},
        rms \in {<<100, 30>>, <<100, 41>>},
        d \in PermDescriptors }

DetectAnyOrder == \E order \in Orders : DetectIn(order)

InitPerm ==
    /\ y \in PermRecordings
    /\ budget = 1
    /\ InitInstance
    /\ NoRequest

NextPerm == DetectAnyOrder

SpecPerm == InitPerm /\ [][NextPerm]_vars

-----------------------------------------------------------------------------
(* The request handler: POST /api/voice-detection (app/main.py).  A        *)
(* request carries the x-api-key header, the language and the base64       *)
(* payload.  The payload is the length of the string and what the          *)
(* decoding libraries make of it: the exception one of them raises, or a   *)
(* waveform of so many samples with so high a peak.  Exceptions are        *)
(* values: an operator returns the name of the exception it raises, and    *)
(* the handler maps it to a status as its except clauses do.               *)

\* librosa.load(wav_io, sr=16000, mono=True)
SampleRate == 16000

\* amplitudes are whole numbers of 1 / AmpScale
AmpScale == 10000

\* VALID_API_KEYS with the environment variables unset
VALID_API_KEYS == {"sk_test_123456789", "sk_live_guvi_hackathon_2024"}

supported_languages == {"Tamil", "English", "Hindi", "Malayalam", "Telugu"}

\* what base64.b64decode, AudioSegment.from_mp3 or librosa.load can raise
DecodeFailures == {"binascii.Error", "CouldntDecodeError"}

\* the recordings a request can decode to
HandlerRecordings ==
    { Recording(Frames(60, 5, 111, 6), <<100, 30>>, d) :
        d \in { e \in PermDescriptors :
                  /\ e.mfcc_variance = Fixed(150 * Scale)
                  /\ e.silence_ratio = Fixed(5)
                  /\ e.energy_jitter = Fixed(5) } }

\* y as librosa.load returns it: len(y), max |y| and what the libraries
\* compute from it
Waveform(samples, peak, rec) ==
    [ f \in DOMAIN rec \cup {"samples", "peak"} |->
        IF f = "samples" THEN samples
        ELSE IF f = "peak" THEN peak
        ELSE rec[f] ]

\* durations around 0.5 s and 300 s, peaks around 0.001
Waveforms ==
    { Waveform(samples, peak, rec) :
        samples \in {0, SampleRate \div 2 - 1, SampleRate \div 2, SampleRate,
                     300 * SampleRate, 300 * SampleRate + 1},
        peak \in {0, AmpScale \div 1000 - 1, AmpScale \div 1000, AmpScale},
        rec \in HandlerRecordings }

\* what the libraries make of a payload: an exception, or a waveform
Decodings ==
    { [raised |-> e] : e \in DecodeFailures }
        \cup { [raised |-> "", y |-> w] : w \in Waveforms }

\* a string of fewer than 100 characters holds no half second of audio
Payloads ==
    { p \in [ length : {0, 99, 100}, decoded : Decodings ] :
        (p.length < 100 /\ p.decoded.raised = "")
            => 2 * p.decoded.y.samples < SampleRate }

Requests ==
    [ x_api_key   : VALID_API_KEYS \cup {"sk_wrong"},
      language    : {"English", "Tamil", "French"},
      audioBase64 : Payloads ]

\* verify_api_key: the status of the HTTPException it raises, 0 if none
VerifyApiKey(x_api_key) ==
    IF x_api_key \notin VALID_API_KEYS THEN 401 ELSE 0

\* VoiceDetectionRequest: the status of a request the model rejects, 0 if none
ValidateRequest(req) ==
    IF req.language \notin supported_languages THEN 422 ELSE 0

\* decode_base64_audio: every exception raised inside becomes a ValueError
DecodeBase64Audio(audio_base64) ==
    IF audio_base64.decoded.raised # ""
    THEN [raised |-> "ValueError"]
    ELSE [raised |-> "", y |-> audio_base64.decoded.y, sr |-> SampleRate]

\* validate_audio with the silence test left out
ValidateAudioNoSilenceTest(w, sr) ==
    IF 2 * w.samples < sr THEN "ValueError"
    ELSE IF w.samples > 300 * sr THEN "ValueError"
    ELSE ""

\* validate_audio: the exception it raises, "" if it returns True
ValidateAudio(w, sr) ==
    IF 2 * w.samples < sr THEN "ValueError"            \* duration < 0.5
    ELSE IF w.samples > 300 * sr THEN "ValueError"     \* duration > 300
    ELSE IF w.peak * 1000 < AmpScale THEN "ValueError" \* np.max(np.abs(y)) < 0.001
    ELSE ""

\* the request ends with an error status
Reject(status) ==
    /\ response' = [status |-> status]
    /\ pc' = "done"
    /\ UNCHANGED passed

\* the request passes a check and moves on
Pass(check, next) ==
    /\ passed' = Append(passed, check)
    /\ pc' = next
    /\ UNCHANGED response

\* the detector's state, untouched by the checks
detector_vars ==
    <<features, scores, indicators, ai_signals, human_signals, WEIGHTS,
      acc, locals, calls, log, budget, fp>>

\* FastAPI resolves Depends(verify_api_key) and binds the request model
\* before it calls detect_voice
Dispatch ==
    /\ pc = "dispatch"
    /\ IF VerifyApiKey(request.x_api_key) # 0
       THEN Reject(VerifyApiKey(request.x_api_key))
       ELSE IF ValidateRequest(request) # 0
       THEN Reject(ValidateRequest(request))
       ELSE Pass("verify_api_key", "language")
    /\ UNCHANGED <<y, request>>
    /\ UNCHANGED detector_vars

\* if request.language not in supported_languages
CheckLanguage ==
    /\ pc = "language"
    /\ IF request.language \notin supported_languages
       THEN Reject(400)
       ELSE Pass("language", "length")
    /\ UNCHANGED <<y, request>>
    /\ UNCHANGED detector_vars

\* if not request.audioBase64 or len(request.audioBase64) < 100
CheckLength ==
    /\ pc = "length"
    /\ IF request.audioBase64.length < 100
       THEN Reject(400)
       ELSE Pass("length", "decode")
    /\ UNCHANGED <<y, request>>
    /\ UNCHANGED detector_vars

\* y, sr = decode_base64_audio(request.audioBase64), except Exception: 400
Decode ==
    /\ pc = "decode"
    /\ \E r \in {DecodeBase64Audio(request.audioBase64)} :
          IF r.raised # ""
          THEN Reject(400) /\ UNCHANGED y
          ELSE Pass("decode_base64_audio", "validate") /\ y' = r.y
    /\ UNCHANGED request
    /\ UNCHANGED detector_vars

\* validate_audio(y, sr), except ValueError: 400; any other exception
\* reaches the outer except clause: 500
Validate ==
    /\ pc = "validate"
    /\ \E raised \in {ValidateAudio(y, SampleRate)} :
          IF raised = "ValueError" THEN Reject(400)
          ELSE IF raised # "" THEN Reject(500)
          ELSE Pass("validate_audio", "detect")
    /\ UNCHANGED <<y, request>>
    /\ UNCHANGED detector_vars

\* detector = VoiceDetector(y, sr, request.language); result =
\* detector.detect(); return VoiceDetectionResponse(...).  The instance is
\* new, so detect() starts from the state __init__ leaves.
RunDetector ==
    /\ pc = "detect"
    /\ DetectCall(AnalysisOrder)
    /\ pc' = "done"
    /\ response' = [status |-> 200]
    /\ UNCHANGED <<request, passed>>

InitHandler ==
    /\ request \in Requests
    /\ pc = "dispatch"
    /\ passed = <<>>
    /\ response = [status |-> 0]
    /\ y = <<>>
    /\ budget = 1
    /\ InitInstance

NextHandler ==
    \/ Dispatch
    \/ CheckLanguage
    \/ CheckLength
    \/ Decode
    \/ Validate
    \/ RunDetector

SpecHandler == InitHandler /\ [][NextHandler]_vars

-----------------------------------------------------------------------------
(* Properties *)

\* the DetectionResult of the latest detect() call
LastResult == log[Len(log)].result

(* C1: after the boost, the two clamps and the rounding to 2 decimals,     *)
(* every confidenceScore detect() returns lies in [0.55, 0.99].            *)
C1_ConfidenceInRange ==
    \A i \in DOMAIN log : log[i].result.confidenceScore \in 55..99

\* a call whose boosted confidence was below 0.55 and was raised to it
C1_RaisedToFloor ==
    /\ calls > 0
    /\ RatLt(RatAdd(locals.raw_confidence, locals.confidence_boost), Centi(55))
    /\ LastResult.confidenceScore = 55

\* the mean of the five category scores stored, weighted by the class weights
ScoresWeightedMean ==
    LET term(category) == RatMul(DictGet(scores, category), Centi(ClassWeights[category]))
    IN  RatAdd(term("pitch"),
        RatAdd(term("mfcc"),
        RatAdd(term("spectral"),
        RatAdd(term("temporal"), term("voice_quality")))))

(* C2: detect() returns AI_GENERATED exactly when the weighted mean of the *)
(* five category scores, as the float computation yields it, is >= 0.50,   *)
(* and HUMAN otherwise; the raw confidence is that mean for AI_GENERATED   *)
(* and 1 minus it for HUMAN, and is never below 0.50.                      *)
C2_LabelFollowsWeightedMean ==
    calls > 0 =>
        LET mean        == ScoresWeightedMean
            label       == LastResult.classification
            atLeastHalf == \/ RatLt(Half, mean)
                           \/ mean = Half /\ fp.prob \in {{0}, {1}}
        IN  /\ locals.ai_probability = mean
            /\ label = (IF atLeastHalf THEN "AI_GENERATED" ELSE "HUMAN")
            /\ locals.raw_confidence =
                   (IF label = "AI_GENERATED" THEN mean ELSE RatSub(Rat(1, 1), mean))
            /\ RatLe(Half, locals.raw_confidence)

\* a call whose weighted mean is 0.50 on the nose and is labelled AI_GENERATED
C2_LabelledAtHalf ==
    /\ calls > 0
    /\ ScoresWeightedMean = Half
    /\ fp.prob = {0}
    /\ LastResult.classification = "AI_GENERATED"
    /\ locals.raw_confidence = Half

\* what detect(), with its own order, returns for this recording on a fresh
\* instance (the float directions are those of the recording)
ResultInOwnOrder ==
    DetectionResult(Decision(Analysis(AnalysisOrder, y, FreshInstance, WEIGHTS), fp.prob),
                    fp.conf)

\* the instance detect() leaves behind with its own order
InstanceInOwnOrder == RunAnalyzers(AnalysisOrder, ExtractAllFeatures(y), FreshInstance)

(* C3 as stated: the five analyzers run in any of their permutations yield *)
(* the same DetectionResult (classification, confidenceScore and           *)
(* explanation) as the order detect() uses.                                *)
C3_SameResultInAnyOrder ==
    \A i \in DOMAIN log : log[i].result = ResultInOwnOrder

(* C3, amended: in any permutation of the five analyzers the               *)
(* classification and the confidenceScore are those of detect()'s own      *)
(* order, and so are the category scores, the two tallies and the set of   *)
(* indicators collected; the explanation is not, since it quotes the first *)
(* two matching indicators in the order the analyzers appended them.       *)
C3_SameLabelAndConfidenceInAnyOrder ==
    calls > 0 =>
        /\ LastResult.classification = ResultInOwnOrder.classification
        /\ LastResult.confidenceScore = ResultInOwnOrder.confidenceScore
        /\ \A category \in CategorySet :
              /\ DictHas(scores, category)
              /\ DictGet(scores, category) = DictGet(InstanceInOwnOrder.scores, category)
        /\ ai_signals = InstanceInOwnOrder.ai_signals
        /\ human_signals = InstanceInOwnOrder.human_signals
        /\ {indicators[i] : i \in DOMAIN indicators}
              = {InstanceInOwnOrder.indicators[i] : i \in DOMAIN InstanceInOwnOrder.indicators}
        /\ Len(indicators) = Len(InstanceInOwnOrder.indicators)

\* a call in another order: same label and confidence, another explanation
C3_OtherOrderOtherExplanation ==
    /\ calls > 0
    /\ log[Len(log)].order # AnalysisOrder
    /\ LastResult.classification = ResultInOwnOrder.classification
    /\ LastResult.confidenceScore = ResultInOwnOrder.confidenceScore
    /\ LastResult.explanation # ResultInOwnOrder.explanation

(* C4 as stated: every detect() call made with the same recording returns  *)
(* the same classification, confidenceScore and explanation, across fresh  *)
(* instances and when detect() is called again on the same instance.       *)
C4_SameResultEveryCall ==
    \A i, j \in DOMAIN log : log[i].result = log[j].result

(* C4, the part about fresh instances: the first detect() call of every    *)
(* instance built for one recording returns the same DetectionResult.      *)
C4_SameResultOnFreshInstances ==
    \A i, j \in DOMAIN log :
        log[i].call = 1 /\ log[j].call = 1 => log[i].result = log[j].result

\* two fresh instances have each answered once for the same recording
C4_TwoFreshInstances ==
    /\ Len(log) = 2
    /\ log[1].call = 1
    /\ log[2].call = 1

\* the pure sustained tone of the scenario: near-constant pitch, near-zero
\* jitter, silence ratio about 0
PureTone ==
    /\ features.pitch_cv < THRESHOLDS.pitch_cv_human_min
    /\ features.pitch_range <= Fixed(50 * Scale)
    /\ features.jitter <= THRESHOLDS.jitter_ai_max
    /\ features.silence_ratio < THRESHOLDS.silence_ratio_human_min

\* the voiced frames vary a little, and the loudness hardly at all
SteadyTone ==
    /\ features.pitch_std > 0
    /\ features.pitch_std < THRESHOLDS.pitch_std_ai_max
    /\ features.rms_cv <= THRESHOLDS.shimmer_ai_max

(* C5 as stated: every pure sustained tone (pitch_cv < 0.08, pitch_range   *)
(* <= 50, jitter <= 0.05, silence_ratio < 0.05), whatever its other        *)
(* features, is labelled AI_GENERATED with confidence >= 0.55.             *)
C5_PureToneIsSynthetic ==
    calls > 0 /\ PureTone =>
        /\ LastResult.classification = "AI_GENERATED"
        /\ LastResult.confidenceScore >= 55

(* C5, amended: a pure sustained tone whose pitch_std lies strictly        *)
(* between 0 and 25 and whose rms_cv (which is also its shimmer) is at     *)
(* most 0.30 is labelled AI_GENERATED with confidence >= 0.55, whatever    *)
(* its other features; the weighted mean is then above 0.56.               *)
C5_SteadyPureToneIsSynthetic ==
    calls > 0 /\ PureTone /\ SteadyTone =>
        /\ LastResult.classification = "AI_GENERATED"
        /\ LastResult.confidenceScore >= 55
        /\ RatLt(Centi(56), locals.ai_probability)

\* a steady pure tone with every remaining test leaning human
C5_SteadyToneAgainstTheRest ==
    /\ calls > 0
    /\ PureTone
    /\ SteadyTone
    /\ DictGet(scores, "mfcc") = Rat(0, 1)
    /\ DictGet(scores, "spectral") = Rat(0, 1)
    /\ features.zcr_std > Fixed(2)
    /\ features.harmonic_ratio <= THRESHOLDS.harmonic_ratio_ai_min
    /\ LastResult.classification = "AI_GENERATED"

\* the natural speech of the scenario: pauses inside the human band, varied
\* pitch, jitter above the threshold
NaturalSpeech ==
    /\ THRESHOLDS.silence_ratio_human_min <= features.silence_ratio
    /\ features.silence_ratio <= THRESHOLDS.silence_ratio_human_max
    /\ features.pitch_cv > THRESHOLDS.pitch_cv_ai_max
    /\ features.jitter > THRESHOLDS.jitter_ai_max

\* the pitch spreads widely and the loudness is modulated
ModulatedSpeech ==
    /\ features.pitch_std >= THRESHOLDS.pitch_std_ai_max
    /\ features.rms_cv > Fixed(40)

(* C6 as stated: every natural-speech vector (silence_ratio in             *)
(* [0.05, 0.30], pitch_cv > 0.15, jitter > 0.05), whatever its other       *)
(* features, is labelled HUMAN.                                            *)
C6_NaturalSpeechIsHuman ==
    calls > 0 /\ NaturalSpeech => LastResult.classification = "HUMAN"

(* C6, amended: a natural-speech vector whose pitch_std is at least 25 and *)
(* whose rms_cv is above 0.40 is labelled HUMAN, whatever its other        *)
(* features; the weighted mean is then below 0.50.                         *)
C6_ModulatedNaturalSpeechIsHuman ==
    calls > 0 /\ NaturalSpeech /\ ModulatedSpeech =>
        /\ LastResult.classification = "HUMAN"
        /\ RatLt(locals.ai_probability, Half)

\* modulated natural speech with every remaining test leaning synthetic
C6_ModulatedSpeechAgainstTheRest ==
    /\ calls > 0
    /\ NaturalSpeech
    /\ ModulatedSpeech
    /\ DictGet(scores, "mfcc") = Rat(1, 1)
    /\ DictGet(scores, "spectral") = Rat(1, 1)
    /\ features.pitch_range <= Fixed(50 * Scale)
    /\ features.zcr_std <= Fixed(2)
    /\ features.harmonic_ratio > THRESHOLDS.harmonic_ratio_ai_min
    /\ LastResult.classification = "HUMAN"

\* the indicators collected by the instance
IndicatorSet == {indicators[i] : i \in DOMAIN indicators}

\* every feature with a threshold of its own sits on it: the four the claim
\* names, and the rest of the cepstral, spectral and temporal tests
OnThresholds ==
    /\ features.pitch_cv = THRESHOLDS.pitch_cv_human_min
    /\ features.mfcc_variance = THRESHOLDS.mfcc_variance_ai_max
    /\ features.mfcc_delta_std = THRESHOLDS.mfcc_delta_std_ai_max
    /\ features.mfcc_std_mean = Fixed(10 * Scale)
    /\ features.spectral_flatness_mean = THRESHOLDS.spectral_flatness_ai_min
    /\ features.spectral_centroid_std = THRESHOLDS.spectral_centroid_std_ai_max
    /\ features.spectral_contrast_mean = Fixed(20 * Scale)
    /\ features.silence_ratio = THRESHOLDS.silence_ratio_human_min
    /\ features.rms_cv = Fixed(40)
    /\ features.zcr_std = Fixed(2)
    /\ features.jitter = THRESHOLDS.jitter_ai_max
    /\ features.harmonic_ratio = THRESHOLDS.harmonic_ratio_ai_min

(* C7 as stated: with every tested feature exactly on the threshold of its *)
(* test, each test is neutral: none of them appends an indicator and every *)
(* affected category score is 0.5.                                         *)
C7_ThresholdsAreNeutral ==
    calls > 0 /\ OnThresholds =>
        /\ indicators = <<>>
        /\ \A category \in CategorySet : DictGet(scores, category) = Half

(* C7, amended: no test is neutral on its threshold; each takes the branch *)
(* its comparison selects.  mfcc_variance = 150 is not below 150: +0.4     *)
(* human and "Rich spectral complexity present".  jitter = 0.05 is not     *)
(* above 0.05: +0.4 AI and "Missing natural voice micro-variations".       *)
(* silence_ratio = 0.05 is inside the closed band: +0.5 human and "Natural *)
(* breathing pauses detected".  pitch_cv = 0.08 takes the middle branch:   *)
(* +0.2 human, no indicator.  With all of them on their thresholds the     *)
(* scores are mfcc 2/9, spectral 1, temporal 4/9 and voice_quality 8/19;   *)
(* 0.5 is the score of a category only when its two accumulators are       *)
(* equal.                                                                  *)
C7_ThresholdsTakeABranch ==
    calls > 0 =>
        /\ features.mfcc_variance = THRESHOLDS.mfcc_variance_ai_max =>
              /\ "Rich spectral complexity present" \in IndicatorSet
              /\ "Low spectral complexity detected" \notin IndicatorSet
              /\ acc.mfcc.human_score >= 40
        /\ features.jitter = THRESHOLDS.jitter_ai_max =>
              /\ "Missing natural voice micro-variations" \in IndicatorSet
              /\ "Natural voice micro-variations detected" \notin IndicatorSet
              /\ acc.voice_quality.ai_score >= 40
        /\ features.silence_ratio = THRESHOLDS.silence_ratio_human_min =>
              /\ "Natural breathing pauses detected" \in IndicatorSet
              /\ "Lack of natural breathing pauses" \notin IndicatorSet
              /\ acc.temporal.human_score >= 50
        /\ features.pitch_cv = THRESHOLDS.pitch_cv_human_min =>
              /\ "Unnaturally consistent pitch detected" \notin IndicatorSet
              /\ "Natural pitch variation present" \notin IndicatorSet
              /\ acc.pitch.human_score >= 20
              /\ acc.pitch.ai_score <= 50
        /\ OnThresholds =>
              /\ DictGet(scores, "mfcc") = Rat(2, 9)
              /\ DictGet(scores, "spectral") = Rat(1, 1)
              /\ DictGet(scores, "temporal") = Rat(4, 9)
              /\ DictGet(scores, "voice_quality") = Rat(8, 19)
        /\ \A category \in CategorySet :
              DictGet(scores, category) = Half
                  <=> acc[category].ai_score = acc[category].human_score

\* a call with every such feature on its threshold, and the indicators of
\* the branches taken
C7_OnThresholdsWithIndicators ==
    /\ calls = 1
    /\ OnThresholds
    /\ indicators = << "Rich spectral complexity present",
                       "Natural breathing pauses detected",
                       "Missing natural voice micro-variations",
                       "Natural amplitude variations present" >>

\* pitch_cv values on, between and beyond the two thresholds
CvSamples ==
    { 0, Below(8), Fixed(8), Between(8), Below(15), Fixed(15), Between(15), Fixed(Scale) }

\* the human-leaning accumulator _analyze_pitch computes for the features of
\* the state with pitch_cv replaced
HumanScoreAt(pitch_cv) ==
    AnalyzePitch([features EXCEPT !.pitch_cv = pitch_cv], FreshInstance).acc.pitch.human_score

\* what the pitch_std and pitch_range tests add to the human accumulator
StdAndRangeShare ==
    (IF features.pitch_std < THRESHOLDS.pitch_std_ai_max /\ features.pitch_std > 0
     THEN 0 ELSE 30)
    + (IF features.pitch_range > Fixed(50 * Scale) THEN 30 ELSE 0)

(* C8: for two feature vectors that differ only in pitch_cv, cv1 <= cv2,   *)
(* the human-leaning accumulator of _analyze_pitch for cv2 is not smaller  *)
(* than for cv1: pitch_cv contributes 0 below 0.08, 0.2 in [0.08, 0.15]    *)
(* and 0.4 above 0.15, on top of the unchanged std and range increments.   *)
C8_HumanScoreMonotoneInCv ==
    calls > 0 =>
        \A cvs \in {CvSamples \cup {features.pitch_cv}} :
        \A human \in {[cv \in cvs |-> HumanScoreAt(cv)]} :
            /\ acc.pitch.human_score = human[features.pitch_cv]
            /\ \A cv1, cv2 \in cvs : cv1 <= cv2 => human[cv1] <= human[cv2]
            /\ \A cv \in cvs :
                  human[cv] - StdAndRangeShare =
                      IF cv < THRESHOLDS.pitch_cv_human_min THEN 0
                      ELSE IF cv <= THRESHOLDS.pitch_cv_ai_max THEN 20
                      ELSE 40

\* a recording whose pitch_cv lies above 0.15 and earned the full 0.4
C8_VariedPitchScoredHuman ==
    /\ calls > 0
    /\ features.pitch_cv > THRESHOLDS.pitch_cv_ai_max
    /\ acc.pitch.human_score = 40 + StdAndRangeShare
    /\ HumanScoreAt(Fixed(8)) = 20 + StdAndRangeShare
    /\ HumanScoreAt(Below(8)) = StdAndRangeShare

\* the sum of a weight table
WeightSum(W) == W.pitch + W.mfcc + W.spectral + W.temporal + W.voice_quality

(* C9: the five category weights are pitch 0.30, mfcc 0.20, spectral 0.15, *)
(* temporal 0.15, voice_quality 0.20 and sum to 1.0 in every reachable     *)
(* state (no operation modifies WEIGHTS), and after detect() all five      *)
(* categories are present in scores, so the weighted mean is taken over a  *)
(* total weight of 1.0.                                                    *)
C9_WeightsSumToOne ==
    /\ WEIGHTS = ClassWeights
    /\ DOMAIN WEIGHTS = CategorySet
    /\ WEIGHTS.pitch = 30
    /\ WEIGHTS.mfcc = 20
    /\ WEIGHTS.spectral = 15
    /\ WEIGHTS.temporal = 15
    /\ WEIGHTS.voice_quality = 20
    /\ WeightSum(WEIGHTS) = 100
    /\ calls > 0 =>
          /\ DictKeys(scores) = CategorySet
          /\ Len(scores) = Len(Categories)
          /\ WeightedTotals(Categories, scores, WEIGHTS).total_weight = Rat(1, 1)
          /\ locals.ai_probability = WeightedTotals(Categories, scores, WEIGHTS).total_score

\* an instance that has run detect() twice and still holds five scores
C9_FiveScoresAfterTwoCalls ==
    /\ calls = 2
    /\ DictKeys(scores) = CategorySet
    /\ Len(scores) = 5
    /\ WEIGHTS = ClassWeights

\* the five pitch features are all 0.0
PitchZeroFilled ==
    /\ features.pitch_mean = 0
    /\ features.pitch_std = 0
    /\ features.pitch_range = 0
    /\ features.pitch_cv = 0
    /\ features.pitch_jumps = 0

\* the number of voiced frames of the recording
Voiced == Len(y.pitch_values)

(* C10 as stated: the five pitch features are all 0.0 exactly when fewer   *)
(* than 10 voiced frames remain, and are computed from the voiced pitch    *)
(* values for every count of 10 or more.                                   *)
C10_ZeroFilledBelowTen ==
    calls > 0 => (PitchZeroFilled <=> Voiced < 10)

(* C10, amended: the five pitch features are all 0.0 exactly when 10 or    *)
(* fewer voiced frames remain (the guard is len(pitch_values) > 10); for   *)
(* every count of 11 or more they are computed from the voiced pitch       *)
(* values (mean > 0, range = max - min, cv = std / mean), and in both      *)
(* cases extraction yields all five.                                       *)
C10_ZeroFilledUpToTen ==
    calls > 0 =>
        /\ PitchZeroFilled <=> Voiced <= 10
        /\ {"pitch_mean", "pitch_std", "pitch_range", "pitch_cv", "pitch_jumps"}
              \subseteq DOMAIN features
        /\ Voiced > 10 =>
              /\ features.pitch_mean = Quantise(Scale * SeqSum(y.pitch_values), Voiced)
              /\ features.pitch_mean > 0
              /\ features.pitch_range
                    = Fixed(Scale * (SeqMax(y.pitch_values) - SeqMin(y.pitch_values)))
              /\ features.pitch_std = 0 <=> features.pitch_range = 0
              /\ features.pitch_cv = 0 <=> features.pitch_std = 0
              /\ features.pitch_cv <= features.pitch_std

\* a recording with exactly 10 voiced frames of two pitches, zero-filled
C10_TenVoicedFramesZeroFilled ==
    /\ calls > 0
    /\ Voiced = 10
    /\ SeqMax(y.pitch_values) > SeqMin(y.pitch_values)
    /\ PitchZeroFilled

-----------------------------------------------------------------------------
\* the request was handed to detect_voice
HandlerEntered == Len(passed) > 0 /\ passed[1] = "verify_api_key"

\* the payload is undecodable, too short, too long or silent
Malformed(audio_base64) ==
    \/ audio_base64.decoded.raised # ""
    \/ 2 * audio_base64.decoded.y.samples < SampleRate
    \/ audio_base64.decoded.y.samples > 300 * SampleRate
    \/ audio_base64.decoded.y.peak * 1000 < AmpScale

(* C11: in detect_voice the detector runs only after the API key, the      *)
(* language, the length of audioBase64, decode_base64_audio and            *)
(* validate_audio have passed, in that order; the waveform it is given     *)
(* lasts at least 0.5 s and at most 300 s and peaks at 0.001 or more; a    *)
(* request with an undecodable, too short, too long or silent payload      *)
(* never runs the detector and ends with status 400.                       *)
C11_ValidationGate ==
    /\ (pc = "detect" \/ calls > 0) =>
          /\ passed = <<"verify_api_key", "language", "length",
                        "decode_base64_audio", "validate_audio">>
          /\ 2 * y.samples >= SampleRate
          /\ y.samples <= 300 * SampleRate
          /\ y.peak * 1000 >= AmpScale
    /\ (HandlerEntered /\ Malformed(request.audioBase64)) =>
          /\ calls = 0
          /\ pc # "detect"
          /\ pc = "done" => response.status = 400
    /\ response.status # 500

\* a decodable payload of valid duration is rejected for being silent
C11_SilentRejected ==
    /\ pc = "done"
    /\ response.status = 400
    /\ passed = <<"verify_api_key", "language", "length", "decode_base64_audio">>
    /\ 2 * y.samples >= SampleRate
    /\ y.samples <= 300 * SampleRate
    /\ y.peak * 1000 < AmpScale
    /\ calls = 0

-----------------------------------------------------------------------------
(* C12: every test branch that fires appends one indicator and increments  *)
(* one tally, so after the analyzers have run the instance holds as many   *)
(* indicators as ai_signals and human_signals add up to.                   *)
C12_IndicatorsMatchTallies ==
    calls > 0 => Len(indicators) = ai_signals + human_signals

-----------------------------------------------------------------------------
(* _calculate_confidence_boost on its own: an instance holding any pair    *)
(* of tallies, and one call of the method.                                 *)

InitBoost ==
    /\ ai_signals \in 0..MaxTally
    /\ human_signals \in 0..MaxTally
    /\ features = <<>>
    /\ scores = <<>>
    /\ indicators = <<>>
    /\ WEIGHTS = ClassWeights
    /\ acc = <<>>
    /\ locals = <<>>
    /\ calls = 0
    /\ log = <<>>
    /\ fp = Undecided
    /\ y = <<>>
    /\ budget = 0
    /\ request = <<>>
    /\ pc = "boost"
    /\ passed = <<>>
    /\ response = [status |-> 0]

BoostCall ==
    /\ pc = "boost"
    /\ locals' = [confidence_boost |->
                    CalculateConfidenceBoost(ai_signals, human_signals)]
    /\ pc' = "returned"
    /\ UNCHANGED <<y, features, scores, indicators, ai_signals, human_signals,
                   WEIGHTS, acc, calls, log, budget, fp, request, passed,
                   response>>

NextBoost == BoostCall

SpecBoost == InitBoost /\ [][NextBoost]_vars

(* C13: with r the larger tally over the sum of the tallies, and r = 0     *)
(* when there are no signals, the boost is 0.25 for r > 0.75, 0.15 for     *)
(* 0.65 < r <= 0.75, 0.08 for 0.55 < r <= 0.65 and 0 otherwise; equal      *)
(* tallies give 0.                                                         *)
C13_BoostTable ==
    pc = "returned" =>
        \A m \in {Max(ai_signals, human_signals)} :
        \A t \in {ai_signals + human_signals} :
            /\ locals.confidence_boost =
                  IF t = 0 THEN Rat(0, 1)
                  ELSE IF 100 * m > 75 * t THEN Rat(1, 4)
                  ELSE IF 100 * m > 65 * t THEN Rat(3, 20)
                  ELSE IF 100 * m > 55 * t THEN Rat(2, 25)
                  ELSE Rat(0, 1)
            /\ ai_signals = human_signals => locals.confidence_boost = Rat(0, 1)

\* r is exactly 0.65 and the boost is 0.08
C13_RatioOnThreshold ==
    /\ pc = "returned"
    /\ ai_signals = 13
    /\ human_signals = 7
    /\ locals.confidence_boost = Rat(2, 25)

-----------------------------------------------------------------------------
(* _generate_explanation on its own: an instance holding any short list    *)
(* of indicators and five scores, and one call with either label.          *)

\* indicators matching the synthetic keywords only, the human keywords
\* only, and both
ExplainTexts ==
    { "Low spectral complexity detected",
      "Unusual pause patterns detected",
      "Wide pitch range typical of human speech",
      "Natural tonal quality detected",
      "Unnaturally consistent pitch detected",
      "Missing natural voice micro-variations" }

\* self.scores after the five analyzers: all equal, spectral highest and
\* mfcc lowest, voice_quality highest and pitch lowest
ExplainScores ==
    { [i \in 1..Len(Categories) |-> [key |-> Categories[i], value |-> v[i]]] :
        v \in { <<Half, Half, Half, Half, Half>>,
                <<Centi(50), Centi(20), Centi(90), Centi(40), Centi(30)>>,
                <<Centi(10), Centi(20), Centi(60), Centi(40), Centi(70)>> } }

InitExplain ==
    /\ indicators \in UNION { [1..n -> ExplainTexts] : n \in 0..MaxIndicators }
    /\ scores \in ExplainScores
    /\ locals \in [classification : {"AI_GENERATED", "HUMAN"}]
    /\ features = <<>>
    /\ ai_signals = 0
    /\ human_signals = 0
    /\ WEIGHTS = ClassWeights
    /\ acc = <<>>
    /\ calls = 0
    /\ log = <<>>
    /\ fp = Undecided
    /\ y = <<>>
    /\ budget = 0
    /\ request = <<>>
    /\ pc = "explain"
    /\ passed = <<>>
    /\ response = [status |-> 0]

ExplainCall ==
    /\ pc = "explain"
    /\ locals' = [ classification |-> locals.classification,
                   explanation    |-> GenerateExplanation(locals.classification,
                                                          indicators, scores) ]
    /\ pc' = "explained"
    /\ UNCHANGED <<y, features, scores, indicators, ai_signals, human_signals,
                   WEIGHTS, acc, calls, log, budget, fp, request, passed,
                   response>>

NextExplain == ExplainCall

SpecExplain == InitExplain /\ [][NextExplain]_vars

\* the indicators, in append order, that match the label's keywords
MatchingIndicators(classification, inds) ==
    LET Matches(ind) ==
            MatchesAny(ind, IF classification = "AI_GENERATED"
                            THEN AiKeywords ELSE HumanKeywords)
    IN  SelectSeq(inds, Matches)

\* the categories no other category scores above / below
HighestScoring(sc) ==
    { sc[i].key : i \in { i \in DOMAIN sc :
                            \A j \in DOMAIN sc : RatLe(sc[j].value, sc[i].value) } }

LowestScoring(sc) ==
    { sc[i].key : i \in { i \in DOMAIN sc :
                            \A j \in DOMAIN sc : RatLe(sc[i].value, sc[j].value) } }

(* C14: with M the indicators, in append order, that match the keywords    *)
(* of the label, the explanation is M[1], " and " and M[2] in lower case   *)
(* when M has two or more entries, M[1] when it has one, and otherwise     *)
(* the static sentence of a highest-scoring category for AI_GENERATED or   *)
(* of a lowest-scoring category for HUMAN; it is never the empty string.   *)
C14_ExplanationSelection ==
    pc = "explained" =>
        \A M \in {MatchingIndicators(locals.classification, indicators)} :
            /\ Len(M) >= 2 =>
                  locals.explanation = M[1] \o " and " \o Lower(M[2])
            /\ Len(M) = 1 => locals.explanation = M[1]
            /\ Len(M) = 0 =>
                  IF locals.classification = "AI_GENERATED"
                  THEN \E c \in HighestScoring(scores) :
                          locals.explanation = AiExplanations(c)
                  ELSE \E c \in LowestScoring(scores) :
                          locals.explanation = HumanExplanations(c)
            /\ locals.explanation # ""

\* HUMAN with no matching indicator: the sentence of the lowest score
C14_HumanStaticSentence ==
    /\ pc = "explained"
    /\ locals.classification = "HUMAN"
    /\ indicators = <<"Low spectral complexity detected",
                      "Unusual pause patterns detected">>
    /\ LowestScoring(scores) = {"mfcc"}
    /\ locals.explanation = "Complex spectral patterns typical of human voice"

-----------------------------------------------------------------------------
\* the indicators appended by the branches that add to ai_score
AiLeaningTexts ==
    { "Unnaturally consistent pitch detected",
      "Low spectral complexity detected",
      "Limited dynamic speech patterns",
      "Lack of natural breathing pauses",
      "Unusual pause patterns detected",
      "Missing natural voice micro-variations",
      "Unusually clean audio signal" }

\* the indicators appended by the branches that add to human_score
HumanLeaningTexts == IndicatorTexts \ AiLeaningTexts

\* the indicators the explanation is built from: the first two that match
UsedIndicators(classification, inds) ==
    LET M == IF classification = "AI_GENERATED"
             THEN SelectSeq(inds, IsAiIndicator)
             ELSE SelectSeq(inds, IsHumanIndicator)
    IN  { M[i] : i \in 1..Min(2, Len(M)) }

(* C15: the indicators an explanation is built from lean the way of the    *)
(* label: for HUMAN each was appended by a branch adding to human_score,   *)
(* for AI_GENERATED each by a branch adding to ai_score.                   *)
C15_ExplanationPolarity ==
    calls > 0 =>
        UsedIndicators(LastResult.classification, indicators)
            \subseteq IF LastResult.classification = "HUMAN"
                      THEN HumanLeaningTexts
                      ELSE AiLeaningTexts

-----------------------------------------------------------------------------
(* C16: whenever detect() adds a positive confidence boost, the larger     *)
(* tally is that of the returned label: ai_signals > human_signals for     *)
(* AI_GENERATED, human_signals > ai_signals for HUMAN.                     *)
C16_BoostAgreesWithLabel ==
    (calls > 0 /\ RatLt(Rat(0, 1), locals.confidence_boost)) =>
        IF LastResult.classification = "AI_GENERATED"
        THEN ai_signals > human_signals
        ELSE human_signals > ai_signals

====
